---- MODULE Spec2Model ----
(***************************************************************************)
(* The short-term conversational memory of the smartrag backend:           *)
(*   - the durable conversation store (ConversationService over MySQL),    *)
(*   - the session cache (RedisClient: Redis, with an in-process map that  *)
(*     is used when Redis was unreachable at start-up or a call throws),   *)
(*   - the session manager (UserSessionManager: get_user_session,          *)
(*     add_message, clear_session, _handle_round_limit),                   *)
(*   - the two conversation endpoints that touch the same state            *)
(*     (delete_conversation, create_conversation_message).                 *)
(*                                                                         *)
(* Scheduling.  The backend runs one uvicorn worker, so every handler is a *)
(* coroutine of one event loop.  RedisClient's get/setex/delete and the    *)
(* database helpers are "async def" functions whose bodies make only       *)
(* blocking calls: awaiting them never yields to the loop.  The one real   *)
(* suspension point inside add_message is the AsyncOpenAI call made by     *)
(* SummaryService.generate_summary during a rollover.  add_message is      *)
(* therefore one atomic step when no rollover is due (AddMessage), and two *)
(* steps when one is (AddMessage up to the summarizer call, then           *)
(* HandleRoundLimitResume), with other requests free to run in between.    *)
(***************************************************************************)
EXTENDS Integers, Sequences, FiniteSets, TLC

(***************************************************************************)
(* Bounds of the model.                                                    *)
(***************************************************************************)
\* UserSession.max_rounds.  The dataclass default is 10; the model runs the
\* round-limit policy with a small budget so that a rollover is reached
\* within a few calls.  Every formula below is stated in terms of the
\* session's own max_rounds field.
MaxRounds == 2
\* Messages that add_message calls hand to one conversation in one run.
MaxMessages == 4
\* Injected failures in one run: Redis calls that throw, database writes that
\* fail, summarizer calls that fail.
MaxFaults == 1
\* Seconds of wall-clock time that a run follows (SpecClock).
MaxClock == 2
\* session_ttl is 600 s.  Expiry is followed in periods of a fraction of the
\* TTL (SpecTtl): an entry that has seen TtlPeriods periods pass since it was
\* set has outlived its TTL.
TtlPeriods == 2

UserSessionMaxTokens == 4000
\* timedelta(seconds=1): the stamp of a non-user message is one second ahead.
AssistantDelay == 1

UserIds == {1, 2}
\* The users who create conversations; every user calls the session manager.
Creators == {1}
\* Conversation ids are caller-chosen strings (CreateConversationRequest).
ConvIds == {"c1"}
\* What a caller may pass as conversation_id: an id, or nothing.
ConvArgs == ConvIds \cup {""}

\* The messages callers add: role, content, tokens.
MsgInputs ==
    { [role |-> "user",      content |-> "hi",    tokens |-> 5],
      [role |-> "assistant", content |-> "hello", tokens |-> 3] }

\* What the text-generation capability may answer to a summary request.
SummaryTexts == {"s1"}

\* Python's None, for an Optional[str].
None == "<None>"
\* SummaryService.generate_summary's text when the call fails and there is
\* no previous summary.
SummaryFailedText == "summary generation failed"
DefaultTitle == "new conversation"

\* A key with no entry / a conversation id with no row.
Absent == [absent |-> TRUE]
NoConversation == [exists |-> FALSE]
Idle == [pc |-> "idle"]

Procs == {1, 2}

\* Failures of cache-backend calls injected into the auth requests.
MaxCodeFaults == 2
\* The half days that the auth requests' clock runs through: 0..MaxHalfDays.
MaxHalfDays == 2
\* Failures injected into the password-reset requests.
MaxResetFaults == 1
\* "if attempts >= 5": the wrong codes a stored verification code allows.
MaxVerificationAttempts == 5
\* "return count < 3": the password-reset attempts allowed per day key.
MaxPasswordResets == 3

\* Email addresses, those of registered users, and the one whose
\* verification codes are followed.
Emails == {"ann", "bob"}
RegisteredEmails == {"ann"}
CodeEmails == {"ann"}
\* The code_type arguments in use, what generate_verification_code returns
\* and what a caller can submit.
CodeTypes == {"registration", "password_reset"}
GeneratedCodes == {"111111"}
Codes == GeneratedCodes \cup {"222222"}
\* The half days of the auth requests' clock and the calendar days they
\* fall in, as datetime.now().strftime("%Y%m%d") tells them apart.
HalfDays == 0..MaxHalfDays
DayOf(t) == t \div 2
Days == {DayOf(t) : t \in HalfDays}
\* No verification call has a result to deliver.
NoResult == [outcome |-> "none"]

\* What datetime.now() can read, and the stamps that can result.
Times == 0..(MaxClock + AssistantDelay)

VARIABLES
    now,             \* the wall clock, in seconds
    conversations,   \* conversations table: id -> row, or NoConversation
    messages,        \* conversation_messages table: id -> committed rows, in insertion order
    use_redis,       \* RedisClient.use_redis
    redis_store,     \* the Redis server: key -> [value, age], or Absent
    memory_cache,    \* RedisClient.memory_cache with memory_cache_expiry: key -> [value, age], or Absent
    calls,           \* request slot -> the session-manager call running or returned in it
    userAdded,       \* history: a user-role add_message has appended to the conversation's window
    nFaults,         \* failures injected so far
    nAdded,          \* messages handed to each conversation by add_message so far
    lastWrite,       \* history: the backing that took the latest set of a key ("redis", "memory"); "none" initially and after an expiry at an unknown time; "cleared" once clear_session has completed for the key and nothing has set it since; "expired" once TimePasses took that entry past its TTL
    vc_redis,        \* verification-code hashes in Redis: key -> [code, attempts, ttl], or Absent
    vc_memory,       \* verification codes in memory_cache with memory_cache_expiry: key -> [code, attempts, expired], or Absent
    vc_result,       \* what the verification call in progress has returned, or NoResult
    wrong,           \* history: key -> wrong codes compared with the stored code since it was set
    nCodeFaults,     \* failures of cache-backend calls injected into the auth requests so far
    half_day,        \* the wall clock of the auth requests, in half days
    reset_redis,     \* password_reset_attempts hashes in Redis: <<email, day>> -> count
    reset_memory,    \* password_reset_attempts entries in memory_cache: <<email, day>> -> count
    issued,          \* history: email -> half day -> password-reset codes issued in it
    hashed_password  \* users table: registered email -> hashed_password

\* The state of the session manager, but for use_redis, which the
\* verification codes share with it.
sessionVars == <<now, conversations, messages, redis_store, memory_cache,
                 calls, nFaults, nAdded, userAdded, lastWrite>>

\* The state of the password-reset requests: clock, limits and users.
resetVars == <<half_day, reset_redis, reset_memory, issued, hashed_password>>

\* The state of the verification codes and of the password-reset limits.
authVars == <<vc_redis, vc_memory, vc_result, wrong, nCodeFaults, resetVars>>

vars == <<now, conversations, messages, use_redis, redis_store, memory_cache,
          calls, nFaults, nAdded, userAdded, lastWrite,
          vc_redis, vc_memory, vc_result, wrong, nCodeFaults,
          half_day, reset_redis, reset_memory, issued, hashed_password>>


(***************************************************************************)
(* Session object                                                          *)
(***************************************************************************)
\* f"conversation:{conversation_id}"
SessionKey(id) == "conversation:" \o id

Keys == {SessionKey(c) : c \in ConvIds} \cup {SessionKey(ToString(u)) : u \in UserIds}

RECURSIVE CountUser(_)
CountUser(msgs) ==
    IF msgs = <<>> THEN 0
    ELSE (IF Head(msgs).role = "user" THEN 1 ELSE 0) + CountUser(Tail(msgs))

\* UserSession.get_rounds
GetRounds(session) == CountUser(session.messages)

\* UserSession.get_history
GetHistory(session) ==
    [i \in 1..Len(session.messages) |->
        [role |-> session.messages[i].role, content |-> session.messages[i].content]]

\* The ISO text of each time.
IsoText == [t \in Times |-> "T" \o ToString(t)]

\* datetime.isoformat: the text of a time.
IsoFormat(t) == IsoText[t]

\* datetime.fromisoformat: the time that a text denotes.
FromIsoFormat(text) == CHOOSE t \in Times : IsoText[t] = text

\* UserSession.to_dict
ToDict(session) ==
    [user_id         |-> session.user_id,
     conversation_id |-> session.conversation_id,
     messages        |-> [i \in 1..Len(session.messages) |->
                            [role       |-> session.messages[i].role,
                             content    |-> session.messages[i].content,
                             timestamp  |-> IsoFormat(session.messages[i].timestamp),
                             tokens     |-> session.messages[i].tokens,
                             importance |-> session.messages[i].importance]],
     total_tokens    |-> session.total_tokens,
     last_activity   |-> IsoFormat(session.last_activity),
     max_tokens      |-> session.max_tokens,
     max_rounds      |-> session.max_rounds,
     summary         |-> session.summary]

\* A faulty from_dict that gives every message ChatMessage's default importance.
FromDictDefaultImportance(data) ==
    [user_id         |-> data.user_id,
     conversation_id |-> data.conversation_id,
     messages        |-> [i \in 1..Len(data.messages) |->
                            [role       |-> data.messages[i].role,
                             content    |-> data.messages[i].content,
                             timestamp  |-> FromIsoFormat(data.messages[i].timestamp),
                             tokens     |-> data.messages[i].tokens,
                             importance |-> 10]],
     total_tokens    |-> data.total_tokens,
     last_activity   |-> FromIsoFormat(data.last_activity),
     max_tokens      |-> data.max_tokens,
     max_rounds      |-> data.max_rounds,
     summary         |-> data.summary]

\* UserSession.from_dict
FromDict(data) ==
    [user_id         |-> data.user_id,
     conversation_id |-> data.conversation_id,
     messages        |-> [i \in 1..Len(data.messages) |->
                            [role       |-> data.messages[i].role,
                             content    |-> data.messages[i].content,
                             timestamp  |-> FromIsoFormat(data.messages[i].timestamp),
                             tokens     |-> data.messages[i].tokens,
                             importance |-> data.messages[i].importance]],
     total_tokens    |-> data.total_tokens,
     last_activity   |-> FromIsoFormat(data.last_activity),
     max_tokens      |-> data.max_tokens,
     max_rounds      |-> data.max_rounds,
     summary         |-> data.summary]

\* The UserSession built on a cache miss (get_user_session's else branch).
NewSession(user_id, conversation_id, summary, clock) ==
    [user_id         |-> user_id,
     conversation_id |-> conversation_id,
     messages        |-> <<>>,
     total_tokens    |-> 0,
     last_activity   |-> clock,
     max_tokens      |-> UserSessionMaxTokens,
     max_rounds      |-> MaxRounds,
     summary         |-> summary]

\* json.dumps and json.loads of a session dict (strings, integers, None and
\* lists of such dicts): the text stands for the dict it encodes.
JsonDumps(data) == [json |-> data]

JsonLoads(text) == text.json

(***************************************************************************)
(* RedisClient: get / setex / delete over Redis or the in-process map.     *)
(* A cache state c is [redis |-> ..., mem |-> ...]; fail says that the     *)
(* Redis call of this operation throws.  An entry carries its age: the     *)
(* periods that have passed since it was set.  Redis drops an entry whose  *)
(* TTL has run out; the map keeps it until the next cleanup.               *)
(***************************************************************************)
\* memory_cache_expiry[k] < time.time(): more than the TTL has passed.
Elapsed(entry) == entry.age > TtlPeriods

\* A faulty cleanup that keeps the entries whose expiry has passed.
CleanupKeepsExpired(mem) == mem

\* RedisClient._cleanup_expired_memory_cache
CleanupExpiredMemoryCache(mem) ==
    [k \in Keys |-> IF mem[k] # Absent /\ Elapsed(mem[k]) THEN Absent ELSE mem[k]]

\* Whether an operation is served by Redis ("if self.use_redis and self.redis_client",
\* and the call does not throw).
ViaRedis(fail) == use_redis /\ ~fail

\* RedisClient.get: the text stored in Redis, or the map's dict as text.
RedisGet(c, key, fail) ==
    IF ViaRedis(fail)
    THEN [value |-> IF c.redis[key] # Absent THEN c.redis[key].value ELSE Absent,
          cache |-> c]
    ELSE LET m == CleanupExpiredMemoryCache(c.mem)
         IN  [value |-> IF m[key] # Absent THEN JsonDumps(m[key].value) ELSE Absent,
              cache |-> [c EXCEPT !.mem = m]]

\* A faulty setex that leaves the expiry of a key that is already set.
SetexKeepsExpiry(c, key, value, fail) ==
    IF ViaRedis(fail)
    THEN [c EXCEPT !.redis[key] =
              [value |-> value, age |-> IF @ # Absent THEN @.age ELSE 0]]
    ELSE [c EXCEPT !.mem = CleanupExpiredMemoryCache(
              [c.mem EXCEPT ![key] =
                  [value |-> JsonLoads(value), age |-> IF @ # Absent THEN @.age ELSE 0]])]

\* RedisClient.setex: Redis stores the text, the map stores the parsed dict;
\* either way the entry's TTL starts anew.
RedisSetex(c, key, value, fail) ==
    IF ViaRedis(fail)
    THEN [c EXCEPT !.redis[key] = [value |-> value, age |-> 0]]
    ELSE [c EXCEPT !.mem = CleanupExpiredMemoryCache(
                               [c.mem EXCEPT ![key] = [value |-> JsonLoads(value), age |-> 0]])]

\* RedisClient.delete
RedisDelete(c, key, fail) ==
    IF ViaRedis(fail)
    THEN [c EXCEPT !.redis[key] = Absent]
    ELSE [c EXCEPT !.mem[key] = Absent]

\* The failures a Redis call can show: none when Redis is not in use.
Failures == IF use_redis THEN BOOLEAN ELSE {FALSE}

Cache == [redis |-> redis_store, mem |-> memory_cache]

(***************************************************************************)
(* ConversationService                                                     *)
(***************************************************************************)
\* A faulty get_conversation that also returns soft-deleted rows.
GetConversationAnyState(convs, cid) == convs[cid]

\* ConversationService.get_conversation: the row, unless soft-deleted.
GetConversation(convs, cid) ==
    IF convs[cid] # NoConversation /\ ~convs[cid].is_deleted THEN convs[cid] ELSE NoConversation

\* UserSessionManager.conversation_exists
ConversationExists(convs, cid) == GetConversation(convs, cid) # NoConversation

\* UserSessionManager.get_conversation_summary
GetConversationSummary(convs, cid) ==
    IF GetConversation(convs, cid) # NoConversation THEN convs[cid].summary ELSE None

\* ConversationService.save_message as called by _save_message_to_db: the row
\* is added and committed unless the database call fails (dbOk = FALSE), and a
\* failure is swallowed (save_message returns None, _save_message_to_db goes on).
\* role_map sends "user" to user, "model" and "assistant" to assistant, and any
\* other role to user.
DbRole(role) ==
    IF role \in {"model", "assistant"} THEN "assistant" ELSE "user"

\* ConversationService.save_message: the row is stamped with the clock, a
\* non-user row one second ahead.
SaveMessage(msgs, cid, m, clock) ==
    [msgs EXCEPT ![cid] = Append(@, [role |-> m.role, content |-> m.content,
                                     tokens |-> m.tokens,
                                     created_at |-> IF m.role = "user" THEN clock
                                                    ELSE clock + AssistantDelay])]

SaveMessageToDb(msgs, cid, m, dbOk, clock) ==
    IF dbOk
    THEN SaveMessage(msgs, cid, [m EXCEPT !.role = DbRole(m.role)], clock)
    ELSE msgs

\* Whether a listing puts the rows in ascending created_at order.
Ascending(rows, order) ==
    \A i, j \in 1..Len(rows) : i < j => rows[order[i]].created_at <= rows[order[j]].created_at

\* ConversationService.get_conversation_messages: the rows ordered by
\* created_at; the database is free in the order of rows with equal stamps.
GetConversationMessages(msgs, cid) ==
    { [i \in 1..Len(msgs[cid]) |-> msgs[cid][order[i]]] :
          order \in { o \in Permutations(1..Len(msgs[cid])) : Ascending(msgs[cid], o) } }

\* _update_conversation_title's title: the first 30 characters, "..." after
\* them when the message is longer.
TitleOf(first_message) ==
    IF Len(first_message) > 30
    THEN SubSeq(first_message, 1, 30) \o "..."
    ELSE first_message

\* ConversationService.update_conversation_title: no row, or a soft-deleted
\* one, is left alone.
UpdateConversationTitle(convs, cid, title) ==
    IF GetConversation(convs, cid) # NoConversation
    THEN [convs EXCEPT ![cid].title = title]
    ELSE convs

\* ConversationService.update_conversation_summary under save_conversation_summary:
\* a failure is swallowed (returns False).
UpdateConversationSummary(convs, cid, summary, dbOk) ==
    IF dbOk /\ GetConversation(convs, cid) # NoConversation
    THEN [convs EXCEPT ![cid].summary = summary]
    ELSE convs

\* Python truthiness of an Optional[str].
Truthy(s) == s # None /\ s # ""

\* SummaryService.generate_summary: the model's text, or, when the call
\* raises, the old summary if there is one and a fixed text otherwise.
GenerateSummary(old_summary, llm) ==
    IF llm.ok THEN llm.text
    ELSE IF Truthy(old_summary) THEN old_summary
    ELSE SummaryFailedText

\* What the generation capability does with one summary request.
LlmOutcomes == {[ok |-> FALSE]} \cup {[ok |-> TRUE, text |-> t] : t \in SummaryTexts}

(***************************************************************************)
(* UserSessionManager                                                      *)
(***************************************************************************)
\* save_user_session: the session's dict as JSON text, set with the session TTL.
SaveUserSession(c, session, fail) ==
    RedisSetex(c, SessionKey(session.conversation_id), JsonDumps(ToDict(session)), fail)

\* A faulty get_user_session without the test for an empty conversation id:
\* the empty id is looked up, has no cache entry and names no conversation.
GetUserSessionNoIdCheck(c, convs, user_id, cid, getFail, setFail, clock) ==
    IF cid = ""
    THEN [error |-> "NotFound", session |-> Absent, hit |-> FALSE, cache |-> c]
    ELSE LET r == RedisGet(c, SessionKey(cid), getFail) IN
         IF r.value # Absent
         THEN LET session == [FromDict(JsonLoads(r.value)) EXCEPT !.last_activity = clock] IN
              [error |-> "none", session |-> session, hit |-> TRUE,
               cache |-> SaveUserSession(r.cache, session, setFail)]
         ELSE IF ~ConversationExists(convs, cid)
         THEN [error |-> "NotFound", session |-> Absent, hit |-> FALSE, cache |-> r.cache]
         ELSE [error |-> "none",
               session |-> NewSession(user_id, cid, GetConversationSummary(convs, cid), clock),
               hit |-> FALSE, cache |-> r.cache]

\* A faulty get_user_session that caches the session it cold-loads.
GetUserSessionCachesColdLoad(c, convs, user_id, cid, getFail, setFail, clock) ==
    IF cid = ""
    THEN [error |-> "InvalidArgument", session |-> Absent, hit |-> FALSE, cache |-> c]
    ELSE LET r == RedisGet(c, SessionKey(cid), getFail) IN
         IF r.value # Absent
         THEN LET session == [FromDict(JsonLoads(r.value)) EXCEPT !.last_activity = clock] IN
              [error |-> "none", session |-> session, hit |-> TRUE,
               cache |-> SaveUserSession(r.cache, session, setFail)]
         ELSE IF ~ConversationExists(convs, cid)
         THEN [error |-> "NotFound", session |-> Absent, hit |-> FALSE, cache |-> r.cache]
         ELSE LET session == NewSession(user_id, cid,
                                        GetConversationSummary(convs, cid), clock) IN
              [error |-> "none", session |-> session, hit |-> FALSE,
               cache |-> SaveUserSession(r.cache, session, setFail)]

\* get_user_session(user_id, conversation_id) on cache state c:
\* [error, session, hit, cache].
GetUserSession(c, convs, user_id, cid, getFail, setFail, clock) ==
    IF cid = ""
    THEN [error |-> "InvalidArgument", session |-> Absent, hit |-> FALSE, cache |-> c]
    ELSE LET r == RedisGet(c, SessionKey(cid), getFail) IN
         IF r.value # Absent
         THEN LET session == [FromDict(JsonLoads(r.value)) EXCEPT !.last_activity = clock] IN
              [error |-> "none", session |-> session, hit |-> TRUE,
               cache |-> SaveUserSession(r.cache, session, setFail)]
         ELSE IF ~ConversationExists(convs, cid)
         THEN [error |-> "NotFound", session |-> Absent, hit |-> FALSE, cache |-> r.cache]
         ELSE [error |-> "none",
               session |-> NewSession(user_id, cid, GetConversationSummary(convs, cid), clock),
               hit |-> FALSE, cache |-> r.cache]

\* The ASCII stand-ins of _calculate_importance's important_keywords.
ImportantKeywords == {"zhongyao", "jinji", "guanjian", "bixu", "qing", "xiexie"}

\* Python's "keyword in content".
Contains(content, keyword) ==
    \E i \in 1..(Len(content) - Len(keyword) + 1) :
        SubSeq(content, i, i + Len(keyword) - 1) = keyword

\* "any(keyword in content)" for the contents that callers send.
HasKeyword == [content \in {m.content : m \in MsgInputs} |->
                  \E k \in ImportantKeywords : Contains(content, k)]

\* _calculate_importance, in tenths.
CalculateImportance(role, content) ==
    LET role_weight == IF role = "system" THEN 10
                       ELSE IF role = "user" THEN 8
                       ELSE IF role = "model" THEN 6
                       ELSE 5
        length == Len(content)
        length_bonus == IF 50 <= length /\ length <= 500 THEN 2
                        ELSE IF length > 500 THEN 1
                        ELSE 0
        keyword_bonus == IF HasKeyword[content] THEN 1 ELSE 0
        importance == 10 + role_weight + length_bonus + keyword_bonus
    IN  IF importance < 20 THEN importance ELSE 20

\* A faulty append that leaves the token total as it was.
AppendMessageKeepsTotal(session, m, clock) ==
    [session EXCEPT
        !.messages = Append(@, [role       |-> m.role,
                                content    |-> m.content,
                                timestamp  |-> IF m.role = "user" THEN clock
                                               ELSE clock + AssistantDelay,
                                tokens     |-> m.tokens,
                                importance |-> CalculateImportance(m.role, m.content)]),
        !.last_activity = clock]

\* add_message's ChatMessage and its append to the session.
AppendMessage(session, m, clock) ==
    [session EXCEPT
        !.messages = Append(@, [role       |-> m.role,
                                content    |-> m.content,
                                timestamp  |-> IF m.role = "user" THEN clock
                                               ELSE clock + AssistantDelay,
                                tokens     |-> m.tokens,
                                importance |-> CalculateImportance(m.role, m.content)]),
        !.total_tokens = @ + m.tokens,
        !.last_activity = clock]

\* The fixed system message of get_conversation_context, and the lead of its
\* summary message.
SystemPreamble == "system preamble"
SummaryLead == "summary of the conversation so far: "

\* A faulty get_conversation_context that leaves the summary out.
GetConversationContextNoSummary(session) ==
    <<[role |-> "system", content |-> SystemPreamble]>>
    \o [i \in 1..Len(session.messages) |->
           [role |-> session.messages[i].role, content |-> session.messages[i].content]]

\* get_conversation_context, from the session that get_user_session returned.
GetConversationContext(session) ==
    <<[role |-> "system", content |-> SystemPreamble]>>
    \o (IF Truthy(session.summary)
        THEN <<[role |-> "system", content |-> SummaryLead \o session.summary]>>
        ELSE <<>>)
    \o [i \in 1..Len(session.messages) |->
           [role |-> session.messages[i].role, content |-> session.messages[i].content]]

\* A faulty round test that already fires at exactly max_rounds.
RoundLimitReached(session) == GetRounds(session) >= session.max_rounds

\* A faulty rollover that stores the summary but keeps the window.
HandleRoundLimitKeepsWindow(session, new_summary) ==
    [session EXCEPT !.summary = new_summary]

\* A faulty rollover that clears the window but keeps its token total.
HandleRoundLimitKeepsTokens(session, new_summary) ==
    [session EXCEPT !.messages = <<>>, !.summary = new_summary]

\* A faulty round test that fires one round late.
RoundLimitFarExceeded(session) == GetRounds(session) > session.max_rounds + 1

\* add_message's "if session.get_rounds() > session.max_rounds"
RoundLimitExceeded(session) == GetRounds(session) > session.max_rounds

\* add_message's "if role == 'user'" with "len(user_messages) == 1"
IsFirstUserMessage(session, role) == role = "user" /\ GetRounds(session) = 1

\* _handle_round_limit after the summary came back: the window is cleared.
HandleRoundLimit(session, new_summary) ==
    [session EXCEPT !.messages = <<>>, !.total_tokens = 0, !.summary = new_summary]

\* The backing that takes a set (history only).
Backing(fail) == IF ViaRedis(fail) THEN "redis" ELSE "memory"

\* A request slot is taken lowest first, once the answers of the calls that
\* have returned are delivered.
Delivered == \A q \in Procs : calls[q].pc # "returned"

FreeSlot(p) ==
    /\ calls[p] = Idle
    /\ \A q \in Procs : q < p => calls[q] # Idle
    /\ Delivered

B2N(b) == IF b THEN 1 ELSE 0

\* Whether another add_message is suspended in its summarizer call.
OtherSuspended(p) == \E q \in Procs \ {p} : calls[q].pc = "summarizing"

\* A request that calls get_user_session (op "get") or get_conversation_context
\* (op "context"), to its return.
SessionCall(p, op, u, cid, getFail, setFail) ==
    /\ FreeSlot(p)
    /\ LET g == GetUserSession(Cache, conversations, u, cid, getFail, setFail, now) IN
       /\ calls' = [calls EXCEPT ![p] =
              [pc |-> "returned", op |-> op, user |-> u, conv |-> cid,
               error |-> g.error, session |-> g.session, hit |-> g.hit,
               age_read |-> IF ~g.hit THEN 0
                            ELSE IF ViaRedis(getFail) THEN redis_store[SessionKey(cid)].age
                            ELSE memory_cache[SessionKey(cid)].age,
               context |-> IF op = "context" /\ g.error = "none"
                           THEN GetConversationContext(g.session)
                           ELSE <<>>]]
       /\ redis_store' = g.cache.redis
       /\ memory_cache' = g.cache.mem
       /\ lastWrite' = IF g.hit THEN [lastWrite EXCEPT ![SessionKey(cid)] = Backing(setFail)]
                       ELSE lastWrite
       /\ (cid = "" => ~getFail) /\ (~g.hit => ~setFail)
    /\ nFaults' = nFaults + B2N(getFail) + B2N(setFail)
    /\ nFaults' <= MaxFaults
    /\ UNCHANGED <<now, conversations, messages, use_redis, nAdded, userAdded>>
    /\ UNCHANGED authVars

\* get_user_session called by a request.
GetSession(p, u, cid, getFail, setFail) == SessionCall(p, "get", u, cid, getFail, setFail)

\* get_conversation_context called by a request.
GetContext(p, u, cid, getFail, setFail) == SessionCall(p, "context", u, cid, getFail, setFail)

\* add_message, from its start to its return or, when the round limit is
\* exceeded, to the summarizer call of _handle_round_limit.
AddMessage(p, u, cid, m, getFail, hitSetFail, dbOk, setFail) ==
    /\ FreeSlot(p)
    /\ cid \in ConvIds => nAdded[cid] < MaxMessages
    /\ nFaults' = nFaults + B2N(getFail) + B2N(hitSetFail) + B2N(~dbOk) + B2N(setFail)
    /\ nFaults' <= MaxFaults
    /\ UNCHANGED <<now, use_redis>>
    /\ LET g == GetUserSession(Cache, conversations, u, cid, getFail, hitSetFail, now) IN
       IF g.error # "none"
       THEN /\ (cid = "" => ~getFail) /\ ~hitSetFail /\ dbOk /\ ~setFail
            /\ calls' = [calls EXCEPT ![p] =
                   [pc |-> "returned", op |-> "add", user |-> u, conv |-> cid, msg |-> m,
                    error |-> g.error, session |-> Absent, hit |-> FALSE,
                    append_ok |-> FALSE, title_updated |-> FALSE,
                    rounds_before |-> 0, rounds_after |-> 0,
                    first_user |-> FALSE,
                    rollover |-> FALSE, llm_ok |-> FALSE, summary_saved |-> FALSE,
                    before |-> Absent,
                    written |-> Absent, overlapped |-> FALSE]]
            /\ redis_store' = g.cache.redis
            /\ memory_cache' = g.cache.mem
            /\ UNCHANGED <<conversations, messages, nAdded, userAdded, lastWrite>>
       ELSE LET session == AppendMessage(g.session, m, now)
                key == SessionKey(cid)
                first == IsFirstUserMessage(session, m.role)
                titled == first /\ GetConversation(conversations, cid) # NoConversation
                exceeded == RoundLimitExceeded(session)
                afterHit == IF g.hit THEN [lastWrite EXCEPT ![key] = Backing(hitSetFail)]
                            ELSE lastWrite
                slot == [pc |-> "returned", op |-> "add", user |-> u, conv |-> cid, msg |-> m,
                         error |-> "none", session |-> session, hit |-> g.hit,
                         append_ok |-> dbOk, title_updated |-> titled,
                         rounds_before |-> GetRounds(g.session),
                         rounds_after |-> GetRounds(session),
                         first_user |-> m.role = "user" /\ ~userAdded[cid],
                         rollover |-> exceeded, llm_ok |-> FALSE, summary_saved |-> FALSE,
                         before |-> session,
                         written |-> Absent, overlapped |-> OtherSuspended(p)]
            IN
            /\ (~g.hit => ~hitSetFail) /\ (exceeded => ~setFail)
            /\ nAdded' = [nAdded EXCEPT ![cid] = @ + 1]
            /\ messages' = SaveMessageToDb(messages, cid, m, dbOk, now)
            /\ conversations' = IF first
                                THEN UpdateConversationTitle(conversations, cid, TitleOf(m.content))
                                ELSE conversations
            /\ userAdded' = [userAdded EXCEPT ![cid] = @ \/ m.role = "user"]
            /\ IF exceeded
               THEN /\ calls' = [calls EXCEPT ![p] = [slot EXCEPT !.pc = "summarizing"]]
                    /\ redis_store' = g.cache.redis
                    /\ memory_cache' = g.cache.mem
                    /\ lastWrite' = afterHit
               ELSE LET c2 == SaveUserSession(g.cache, session, setFail) IN
                    /\ calls' = [calls EXCEPT ![p] = [slot EXCEPT !.written = ToDict(session)]]
                    /\ redis_store' = c2.redis
                    /\ memory_cache' = c2.mem
                    /\ lastWrite' = [afterHit EXCEPT ![key] = Backing(setFail)]
    /\ UNCHANGED authVars

\* The rest of add_message once generate_summary has returned: the summary is
\* saved, the window cleared, the session written to the cache and returned.
HandleRoundLimitResume(p, llm, dbOk, setFail) ==
    /\ calls[p].pc = "summarizing"
    /\ LET old == calls[p].session
           key == SessionKey(old.conversation_id)
           new_summary == GenerateSummary(old.summary, llm)
           session == HandleRoundLimit(old, new_summary)
           c2 == SaveUserSession(Cache, session, setFail)
       IN
       /\ conversations' = UpdateConversationSummary(conversations, old.conversation_id,
                                                     new_summary, dbOk)
       /\ calls' = [calls EXCEPT ![p] = [@ EXCEPT !.pc = "returned", !.session = session,
                                                 !.llm_ok = llm.ok,
                                                 !.summary_saved =
                                                     dbOk /\ GetConversation(conversations,
                                                                 old.conversation_id) # NoConversation,
                                                 !.written = ToDict(session)]]
       /\ redis_store' = c2.redis
       /\ memory_cache' = c2.mem
       /\ lastWrite' = [lastWrite EXCEPT ![key] = Backing(setFail)]
    /\ nFaults' = nFaults + B2N(~llm.ok) + B2N(~dbOk) + B2N(setFail)
    /\ nFaults' <= MaxFaults
    /\ UNCHANGED <<now, messages, use_redis, nAdded, userAdded>>
    /\ UNCHANGED authVars

\* The caller has its answer: the request slot is free again.
Respond(p) ==
    /\ calls[p].pc = "returned"
    /\ calls' = [calls EXCEPT ![p] = Idle]
    /\ UNCHANGED <<now, conversations, messages, use_redis, redis_store, memory_cache,
                   nFaults, nAdded, userAdded, lastWrite>>
    /\ UNCHANGED authVars

\* The histories a chat request carries from its client.
Histories == {<<>>, <<[role |-> "model", content |-> "hello"]>>}

\* _prepare_messages: the system prompt, the client's history with the role
\* "model" renamed "assistant", then the current user message.
PrepareMessages(message, history) ==
    LET kept == SelectSeq(history, LAMBDA item : Truthy(item.role) /\ Truthy(item.content)) IN
    <<[role |-> "system", content |-> SystemPreamble]>>
    \o [i \in 1..Len(kept) |->
           [role |-> IF kept[i].role = "model" THEN "assistant" ELSE kept[i].role,
            content |-> kept[i].content]]
    \o <<[role |-> "user", content |-> message]>>

\* _prepare_messages_with_summary, from the context that
\* get_conversation_context returned: the current user message is appended.
PrepareMessagesWithSummary(context, message) ==
    Append(context, [role |-> "user", content |-> message])

\* A chat turn whose add_message of the user message has returned.
UserMessageAdded(p) ==
    /\ calls[p].pc = "returned"
    /\ calls[p].op = "add"
    /\ calls[p].msg.role = "user"

\* The rest of a chat turn of process_message_with_history or stream_response
\* up to the call of the generation API: after add_message of the user
\* message, _prepare_messages_with_summary reads the context of the session;
\* when add_message or get_conversation_context raised, the messages are
\* prepared from the client's history instead.
ChatPrepare(p, history, getFail, setFail) ==
    /\ UserMessageAdded(p)
    /\ LET u == calls[p].user
           cid == calls[p].conv
           message == calls[p].msg.content
           added == calls[p].error = "none"
           g == GetUserSession(Cache, conversations, u, cid, getFail, setFail, now)
           viaManager == added /\ g.error = "none"
       IN
       /\ calls' = [calls EXCEPT ![p] =
              [pc |-> "returned", op |-> "chat", user |-> u, conv |-> cid,
               msg |-> calls[p].msg,
               error |-> IF added THEN g.error ELSE "add failed",
               via_manager |-> viaManager,
               window |-> IF calls[p].error = "none" THEN calls[p].before.messages ELSE <<>>,
               rollover |-> calls[p].rollover,
               messages |-> IF viaManager
                            THEN PrepareMessagesWithSummary(
                                     GetConversationContext(g.session), message)
                            ELSE PrepareMessages(message, history)]]
       /\ IF added
          THEN /\ redis_store' = g.cache.redis
               /\ memory_cache' = g.cache.mem
               /\ lastWrite' = IF g.hit
                               THEN [lastWrite EXCEPT ![SessionKey(cid)] = Backing(setFail)]
                               ELSE lastWrite
               /\ (cid = "" => ~getFail) /\ (~g.hit => ~setFail)
               /\ nFaults' = nFaults + B2N(getFail) + B2N(setFail)
          ELSE /\ ~getFail /\ ~setFail
               /\ UNCHANGED <<redis_store, memory_cache, lastWrite, nFaults>>
    /\ nFaults' <= MaxFaults
    /\ UNCHANGED <<now, conversations, messages, use_redis, nAdded, userAdded>>
    /\ UNCHANGED authVars

\* clear_session(conversation_id)
ClearSession(id, fail) ==
    /\ Delivered
    /\ LET c2 == RedisDelete(Cache, SessionKey(id), fail) IN
       /\ redis_store' = c2.redis
       /\ memory_cache' = c2.mem
    /\ lastWrite' = [lastWrite EXCEPT ![SessionKey(id)] = "cleared"]
    /\ nFaults' = nFaults + B2N(fail)
    /\ nFaults' <= MaxFaults
    /\ UNCHANGED <<now, conversations, messages, use_redis, calls, nAdded, userAdded>>
    /\ UNCHANGED authVars

\* DELETE /api/v1/conversations/{conversation_id}: 404 when the conversation
\* is missing or soft-deleted, 403 for another user's; then the soft delete and
\* clear_session(current_user.id).
DeleteConversation(u, cid, fail) ==
    /\ Delivered
    /\ GetConversation(conversations, cid) # NoConversation
    /\ conversations[cid].user_id = u
    /\ conversations' = [conversations EXCEPT ![cid].is_deleted = TRUE]
    /\ LET c2 == RedisDelete(Cache, SessionKey(ToString(u)), fail) IN
       /\ redis_store' = c2.redis
       /\ memory_cache' = c2.mem
    /\ lastWrite' = [lastWrite EXCEPT ![SessionKey(ToString(u))] = "cleared"]
    /\ nFaults' = nFaults + B2N(fail)
    /\ nFaults' <= MaxFaults
    /\ UNCHANGED <<now, messages, use_redis, calls, nAdded, userAdded>>
    /\ UNCHANGED authVars

\* Redis drops a key whose TTL has run out.
RedisExpire(k) ==
    /\ Delivered
    /\ redis_store[k] # Absent
    /\ redis_store' = [redis_store EXCEPT ![k] = Absent]
    /\ lastWrite' = IF lastWrite[k] = "redis" THEN [lastWrite EXCEPT ![k] = "none"]
                    ELSE lastWrite
    /\ UNCHANGED <<now, conversations, messages, use_redis, memory_cache, calls,
                   nFaults, nAdded, userAdded>>
    /\ UNCHANGED authVars

\* Time passes beyond memory_cache_expiry[k]; the entry stays in the map until
\* the next _cleanup_expired_memory_cache.
MemoryExpiryElapses(k) ==
    /\ Delivered
    /\ memory_cache[k] # Absent
    /\ ~Elapsed(memory_cache[k])
    /\ memory_cache' = [memory_cache EXCEPT ![k].age = TtlPeriods + 1]
    /\ lastWrite' = IF lastWrite[k] = "memory" THEN [lastWrite EXCEPT ![k] = "none"]
                    ELSE lastWrite
    /\ UNCHANGED <<now, conversations, messages, use_redis, redis_store, calls,
                   nFaults, nAdded, userAdded>>
    /\ UNCHANGED authVars

\* One period passes with no request: every entry is one period older.  Redis
\* drops an entry once its TTL has passed; the map keeps an entry, whose
\* expiry is only looked at by _cleanup_expired_memory_cache.
TimePasses ==
    /\ Delivered
    /\ \E k \in Keys : \/ redis_store[k] # Absent
                       \/ memory_cache[k] # Absent /\ ~Elapsed(memory_cache[k])
    /\ redis_store' = [k \in Keys |->
            IF redis_store[k] = Absent \/ redis_store[k].age + 1 >= TtlPeriods
            THEN Absent
            ELSE [redis_store[k] EXCEPT !.age = @ + 1]]
    /\ memory_cache' = [k \in Keys |->
            IF memory_cache[k] = Absent \/ Elapsed(memory_cache[k])
            THEN memory_cache[k]
            ELSE [memory_cache[k] EXCEPT !.age = @ + 1]]
    /\ lastWrite' = [k \in Keys |->
            IF \/ lastWrite[k] = "redis" /\ redis_store'[k] = Absent
               \/ lastWrite[k] = "memory" /\ memory_cache'[k] # Absent
                                          /\ Elapsed(memory_cache'[k])
            THEN "expired"
            ELSE lastWrite[k]]
    /\ UNCHANGED <<now, conversations, messages, use_redis, calls, nFaults, nAdded, userAdded>>
    /\ UNCHANGED authVars

\* A second passes on the wall clock.
Tick ==
    /\ now < MaxClock
    /\ now' = now + 1
    /\ UNCHANGED <<conversations, messages, use_redis, redis_store, memory_cache, calls,
                   nFaults, nAdded, userAdded, lastWrite>>
    /\ UNCHANGED authVars

(***************************************************************************)
(* RedisClient: verification codes.  Every function runs to its end on the *)
(* event loop (the endpoints are coroutines that call it without awaiting) *)
(* and takes the failure of each Redis call it makes as an input.          *)
(***************************************************************************)
\* key = f"verification_code:{code_type}:{email}"
VcKey(email, code_type) == "verification_code:" \o code_type \o ":" \o email

VcKeys == {VcKey(e, t) : e \in Emails, t \in CodeTypes}

\* The two backings of the verification codes.
CodeStore == [redis |-> vc_redis, mem |-> vc_memory]

\* _cleanup_expired_memory_cache, on the verification-code entries.
CleanupExpiredCodes(mem) ==
    [k \in VcKeys |-> IF mem[k] # Absent /\ mem[k].expired THEN Absent ELSE mem[k]]

\* Where a Redis call of set_verification_code can fail: nowhere, at the
\* first hset (nothing is written), or at the final hgetall (all is written).
SetFailures == IF use_redis THEN {"none", "before", "after"} ELSE {"none"}

\* set_verification_code: the hash with attempts 0 and a fresh expiry goes to
\* Redis; to memory_cache when Redis is not in use or a Redis call fails.
SetVerificationCode(st, email, code_type, code, fail) ==
    LET key == VcKey(email, code_type)
        inRedis == [st EXCEPT !.redis[key] = [code |-> code, attempts |-> 0, ttl |-> TRUE]]
        InMemory(s) ==
            [s EXCEPT !.mem = CleanupExpiredCodes(
                 [s.mem EXCEPT ![key] = [code |-> code, attempts |-> 0, expired |-> FALSE]])]
    IN  IF use_redis
        THEN IF fail = "none" THEN inRedis
             ELSE IF fail = "before" THEN InMemory(st)
             ELSE InMemory(inRedis)
        ELSE InMemory(st)

\* delete_verification_code: Redis delete; the memory entry when Redis is not
\* in use or the Redis delete fails.
DeleteVerificationCode(st, email, code_type, fail) ==
    IF use_redis /\ ~fail
    THEN [st EXCEPT !.redis[VcKey(email, code_type)] = Absent]
    ELSE [st EXCEPT !.mem[VcKey(email, code_type)] = Absent]

\* The read that opens is_verification_code_valid and
\* verify_code_with_details: hgetall; memory_cache as it is when hgetall
\* fails; memory_cache after a cleanup when Redis is not in use.
ReadCodeData(st, key, getFail) ==
    IF use_redis
    THEN IF ~getFail
         THEN [data |-> st.redis[key], mem |-> st.mem, source |-> "redis"]
         ELSE [data |-> st.mem[key], mem |-> st.mem, source |-> "memory"]
    ELSE LET m == CleanupExpiredCodes(st.mem) IN
         [data |-> m[key], mem |-> m, source |-> "memory"]

\* The body shared by is_verification_code_valid and
\* verify_code_with_details: the result, the store after the call, which
\* Redis calls were made, and whether a wrong code was compared with a stored
\* code and whether the entry read had passed its expiry.
VerifyCode(st, email, code_type, code, getFail, delFail, incrFail) ==
    LET key == VcKey(email, code_type)
        r == ReadCodeData(st, key, getFail)
        s1 == [st EXCEPT !.mem = r.mem]
        stale == r.source = "memory" /\ r.data # Absent /\ r.data.expired
    IN  IF r.data = Absent
        THEN [valid |-> FALSE, error_type |-> "code_not_found", remaining_attempts |-> 0,
              store |-> s1, deleted |-> FALSE, incremented |-> FALSE,
              wrong_compared |-> FALSE, read_expired |-> FALSE]
        ELSE IF r.data.attempts >= MaxVerificationAttempts
        THEN [valid |-> FALSE, error_type |-> "max_attempts_exceeded",
              remaining_attempts |-> 0,
              store |-> DeleteVerificationCode(s1, email, "registration", delFail),
              deleted |-> TRUE, incremented |-> FALSE,
              wrong_compared |-> FALSE, read_expired |-> stale]
        ELSE IF r.data.code # code
        THEN LET new_attempts == r.data.attempts + 1 IN
             [valid |-> FALSE, error_type |-> "invalid_code",
              remaining_attempts |-> MaxVerificationAttempts - new_attempts,
              store |-> IF use_redis
                        THEN IF ~incrFail
                             THEN [s1 EXCEPT !.redis[key] =
                                      IF @ = Absent
                                      THEN [code |-> None, attempts |-> 1, ttl |-> FALSE]
                                      ELSE [@ EXCEPT !.attempts = @ + 1]]
                             ELSE IF s1.mem[key] # Absent
                                  THEN [s1 EXCEPT !.mem[key].attempts = new_attempts]
                                  ELSE s1
                        ELSE [s1 EXCEPT !.mem[key].attempts = new_attempts],
              deleted |-> FALSE, incremented |-> TRUE,
              wrong_compared |-> r.data.code # None, read_expired |-> stale]
        ELSE [valid |-> TRUE, error_type |-> "none",
              remaining_attempts |-> MaxVerificationAttempts - r.data.attempts,
              store |-> s1, deleted |-> FALSE, incremented |-> FALSE,
              wrong_compared |-> FALSE, read_expired |-> stale]

\* The failures a Redis call of the auth requests can show.
CodeFailures == IF use_redis THEN BOOLEAN ELSE {FALSE}

\* A verification call of either kind, to its return.
VerificationCall(op, email, code_type, code, getFail, delFail, incrFail) ==
    /\ vc_result = NoResult
    /\ LET v == VerifyCode(CodeStore, email, code_type, code, getFail, delFail, incrFail)
           key == VcKey(email, code_type)
       IN
       /\ delFail => v.deleted
       /\ incrFail => v.incremented
       /\ vc_redis' = v.store.redis
       /\ vc_memory' = v.store.mem
       /\ vc_result' = [outcome |-> "returned", op |-> op, email |-> email,
                        code_type |-> code_type, valid |-> v.valid,
                        error_type |-> v.error_type,
                        remaining_attempts |-> v.remaining_attempts,
                        read_expired |-> v.read_expired,
                        wrong_before |-> wrong[key]]
       /\ wrong' = IF v.wrong_compared THEN [wrong EXCEPT ![key] = @ + 1] ELSE wrong
    /\ nCodeFaults' = nCodeFaults + B2N(getFail) + B2N(delFail) + B2N(incrFail)
    /\ nCodeFaults' <= MaxCodeFaults
    /\ UNCHANGED <<use_redis, resetVars>>
    /\ UNCHANGED sessionVars

\* is_verification_code_valid(email, code, code_type): its caller gets the
\* value of valid only.
IsVerificationCodeValid(email, code_type, code, getFail, delFail, incrFail) ==
    VerificationCall("is_valid", email, code_type, code, getFail, delFail, incrFail)

\* verify_code_with_details(email, code, code_type)
VerifyCodeWithDetails(email, code_type, code, getFail, delFail, incrFail) ==
    VerificationCall("details", email, code_type, code, getFail, delFail, incrFail)

\* The caller has the result of its verification.
DeliverResult ==
    /\ vc_result # NoResult
    /\ vc_result' = NoResult
    /\ UNCHANGED <<use_redis, vc_redis, vc_memory, wrong, nCodeFaults,
                   resetVars>>
    /\ UNCHANGED sessionVars

\* set_verification_code(email, code, code_type), as send_verification_code
\* calls it with a fresh code.
StoreVerificationCode(email, code_type, code, fail) ==
    /\ vc_result = NoResult
    /\ LET st == SetVerificationCode(CodeStore, email, code_type, code, fail) IN
       /\ vc_redis' = st.redis
       /\ vc_memory' = st.mem
    /\ wrong' = [wrong EXCEPT ![VcKey(email, code_type)] = 0]
    /\ nCodeFaults' = nCodeFaults + B2N(fail # "none")
    /\ nCodeFaults' <= MaxCodeFaults
    /\ UNCHANGED <<use_redis, vc_result, resetVars>>
    /\ UNCHANGED sessionVars

\* delete_verification_code(email, code_type), as the callers use it once a
\* code has served.
RemoveVerificationCode(email, code_type, fail) ==
    /\ vc_result = NoResult
    /\ \/ vc_redis[VcKey(email, code_type)] # Absent
       \/ vc_memory[VcKey(email, code_type)] # Absent
    /\ LET st == DeleteVerificationCode(CodeStore, email, code_type, fail) IN
       /\ vc_redis' = st.redis
       /\ vc_memory' = st.mem
    /\ nCodeFaults' = nCodeFaults + B2N(fail)
    /\ nCodeFaults' <= MaxCodeFaults
    /\ UNCHANGED <<use_redis, vc_result, wrong, resetVars>>
    /\ UNCHANGED sessionVars

\* Redis drops a verification-code hash whose expiry has passed.
CodeExpires(key) ==
    /\ vc_result = NoResult
    /\ vc_redis[key] # Absent
    /\ vc_redis[key].ttl
    /\ vc_redis' = [vc_redis EXCEPT ![key] = Absent]
    /\ UNCHANGED <<use_redis, vc_memory, vc_result, wrong, nCodeFaults,
                   resetVars>>
    /\ UNCHANGED sessionVars

\* Time passes beyond memory_cache_expiry[key]; the entry stays in the map
\* until the next _cleanup_expired_memory_cache.
MemoryCodeExpiryElapses(key) ==
    /\ vc_result = NoResult
    /\ vc_memory[key] # Absent
    /\ ~vc_memory[key].expired
    /\ vc_memory' = [vc_memory EXCEPT ![key].expired = TRUE]
    /\ UNCHANGED <<use_redis, vc_redis, vc_result, wrong, nCodeFaults,
                   resetVars>>
    /\ UNCHANGED sessionVars

(***************************************************************************)
(* AuthService: password reset.  The endpoints are coroutines that call    *)
(* these functions without awaiting, so each request runs to its end.      *)
(***************************************************************************)
\* today = datetime.now().strftime("%Y%m%d"), the day part of the key
\* password_reset_attempts:{email}:{today}.
Today == DayOf(half_day)

\* The two backings of the password-reset counters.
ResetLimits == [redis |-> reset_redis, mem |-> reset_memory]

\* The passwords a reset request may carry, with what
\* validate_password_strength looks at.
NewPasswords ==
    {[text |-> "abc123", length |-> 6, digit |-> TRUE, lower |-> TRUE, upper |-> FALSE,
      special |-> FALSE, common |-> TRUE],
     [text |-> "Str0ng!pass", length |-> 11, digit |-> TRUE, lower |-> TRUE, upper |-> TRUE,
      special |-> TRUE, common |-> FALSE]}

\* validate_password_strength(password)["valid"]
ValidatePasswordStrength(password) ==
    /\ password.length >= 8
    /\ password.digit /\ password.lower /\ password.upper /\ password.special
    /\ ~password.common

\* get_password_hash(password)
GetPasswordHash(password) == "hash:" \o password.text

\* _check_password_reset_limits: the count of today's key is below the limit;
\* a failing hgetall lets the request pass.
CheckPasswordResetLimits(lim, email, day, fail) ==
    IF use_redis
    THEN IF fail THEN TRUE ELSE lim.redis[email][day] < MaxPasswordResets
    ELSE lim.mem[email][day] < MaxPasswordResets

\* Where a Redis call of _record_password_reset_attempt can fail: nowhere, at
\* hincrby (nothing is counted in Redis), or at expire (hincrby has counted).
RecordFailures == IF use_redis THEN {"none", "hincrby", "expire"} ELSE {"none"}

\* _record_password_reset_attempt: today's count in Redis is incremented; the
\* count in memory_cache when Redis is not in use or a Redis call fails.
RecordPasswordResetAttempt(lim, email, day, fail) ==
    LET inRedis == [lim EXCEPT !.redis[email][day] = @ + 1]
        InMemory(l) == [l EXCEPT !.mem[email][day] = @ + 1]
    IN  IF use_redis
        THEN IF fail = "none" THEN inRedis
             ELSE IF fail = "hincrby" THEN InMemory(lim)
             ELSE InMemory(inRedis)
        ELSE InMemory(lim)

\* What a password-reset request returns to its caller.
ResetResult(op, email, valid, error_type) ==
    [outcome |-> "returned", op |-> op, email |-> email, code_type |-> "password_reset",
     valid |-> valid, error_type |-> error_type, remaining_attempts |-> 0,
     read_expired |-> FALSE, wrong_before |-> 0]

\* send_password_reset_code(email), to its return: nothing for an
\* unregistered email; 429 when the limit check fails; otherwise a code is
\* stored under the type password_reset and queued for sending, and the
\* attempt recorded; the code is deleted again when the queue refuses it.
SendPasswordResetCode(email, code, checkFail, setFail, mailOk, recFail, delFail) ==
    /\ vc_result = NoResult
    /\ LET key == VcKey(email, "password_reset")
           allowed == CheckPasswordResetLimits(ResetLimits, email, Today, checkFail)
           stored == SetVerificationCode(CodeStore, email, "password_reset", code, setFail)
           removed == DeleteVerificationCode(stored, email, "password_reset", delFail)
           lim == RecordPasswordResetAttempt(ResetLimits, email, Today, recFail)
       IN
       IF email \notin RegisteredEmails
       THEN /\ ~checkFail /\ setFail = "none" /\ mailOk /\ recFail = "none" /\ ~delFail
            /\ vc_result' = ResetResult("send_password_reset_code", email, FALSE, "dummy_code")
            /\ UNCHANGED <<vc_redis, vc_memory, wrong, reset_redis, reset_memory, issued>>
       ELSE IF ~allowed
       THEN /\ setFail = "none" /\ mailOk /\ recFail = "none" /\ ~delFail
            /\ vc_result' = ResetResult("send_password_reset_code", email, FALSE,
                                        "too_many_requests")
            /\ UNCHANGED <<vc_redis, vc_memory, wrong, reset_redis, reset_memory, issued>>
       ELSE IF mailOk
       THEN /\ ~delFail
            /\ vc_redis' = stored.redis
            /\ vc_memory' = stored.mem
            /\ wrong' = [wrong EXCEPT ![key] = 0]
            /\ reset_redis' = lim.redis
            /\ reset_memory' = lim.mem
            /\ issued' = [issued EXCEPT ![email][half_day] = @ + 1]
            /\ vc_result' = ResetResult("send_password_reset_code", email, TRUE, "none")
       ELSE /\ recFail = "none"
            /\ vc_redis' = removed.redis
            /\ vc_memory' = removed.mem
            /\ wrong' = [wrong EXCEPT ![key] = 0]
            /\ vc_result' = ResetResult("send_password_reset_code", email, FALSE,
                                        "email_failed")
            /\ UNCHANGED <<reset_redis, reset_memory, issued>>
    /\ nCodeFaults' = nCodeFaults + B2N(checkFail) + B2N(setFail # "none") + B2N(~mailOk)
                      + B2N(recFail # "none") + B2N(delFail)
    /\ nCodeFaults' <= MaxResetFaults
    /\ UNCHANGED <<use_redis, half_day, hashed_password>>
    /\ UNCHANGED sessionVars

\* reset_password(email, code, new_password), to its return: 400 for a weak
\* password, a rejected code or an unknown user; otherwise the new hash is
\* committed, the code deleted and the attempt recorded.
ResetPassword(email, code, password, getFail, limitDelFail, incrFail, commitOk, delFail, recFail) ==
    /\ vc_result = NoResult
    /\ LET key == VcKey(email, "password_reset")
           v == VerifyCode(CodeStore, email, "password_reset", code, getFail, limitDelFail,
                           incrFail)
           removed == DeleteVerificationCode(v.store, email, "password_reset", delFail)
           lim == RecordPasswordResetAttempt(ResetLimits, email, Today, recFail)
       IN
       IF ~ValidatePasswordStrength(password)
       THEN /\ ~getFail /\ ~limitDelFail /\ ~incrFail /\ commitOk /\ ~delFail
            /\ recFail = "none"
            /\ vc_result' = ResetResult("reset_password", email, FALSE, "weak_password")
            /\ UNCHANGED <<vc_redis, vc_memory, wrong, reset_redis, reset_memory,
                           hashed_password>>
       ELSE /\ limitDelFail => v.deleted
            /\ incrFail => v.incremented
            /\ wrong' = IF v.wrong_compared THEN [wrong EXCEPT ![key] = @ + 1] ELSE wrong
            /\ IF ~v.valid \/ email \notin RegisteredEmails \/ ~commitOk
               THEN /\ (~v.valid \/ email \notin RegisteredEmails) => commitOk
                    /\ ~delFail /\ recFail = "none"
                    /\ vc_redis' = v.store.redis
                    /\ vc_memory' = v.store.mem
                    /\ vc_result' = ResetResult("reset_password", email, FALSE,
                                         IF ~v.valid THEN v.error_type
                                         ELSE IF email \notin RegisteredEmails
                                         THEN "no_user" ELSE "commit_failed")
                    /\ UNCHANGED <<reset_redis, reset_memory, hashed_password>>
               ELSE /\ hashed_password' = [hashed_password EXCEPT ![email] =
                                               GetPasswordHash(password)]
                    /\ vc_redis' = removed.redis
                    /\ vc_memory' = removed.mem
                    /\ reset_redis' = lim.redis
                    /\ reset_memory' = lim.mem
                    /\ vc_result' = ResetResult("reset_password", email, TRUE, "none")
    /\ nCodeFaults' = nCodeFaults + B2N(getFail) + B2N(limitDelFail) + B2N(incrFail)
                      + B2N(~commitOk) + B2N(delFail) + B2N(recFail # "none")
    /\ nCodeFaults' <= MaxResetFaults
    /\ UNCHANGED <<use_redis, half_day, issued>>
    /\ UNCHANGED sessionVars

\* Half a day passes on the wall clock: every stored code, which lives five
\* minutes, is past its expiry; a Redis hash that has no TTL stays.
HalfDayPasses ==
    /\ vc_result = NoResult
    /\ half_day < MaxHalfDays
    /\ half_day' = half_day + 1
    /\ vc_redis' = [k \in VcKeys |->
                       IF vc_redis[k] # Absent /\ ~vc_redis[k].ttl THEN vc_redis[k]
                       ELSE Absent]
    /\ vc_memory' = [k \in VcKeys |->
                        IF vc_memory[k] = Absent THEN Absent
                        ELSE [vc_memory[k] EXCEPT !.expired = TRUE]]
    /\ UNCHANGED <<use_redis, vc_result, wrong, nCodeFaults, reset_redis, reset_memory,
                   issued, hashed_password>>
    /\ UNCHANGED sessionVars

Init ==
    /\ now = 0
    /\ conversations = [c \in ConvIds |-> NoConversation]
    /\ messages = [c \in ConvIds |-> <<>>]
    /\ use_redis \in BOOLEAN
    /\ redis_store = [k \in Keys |-> Absent]
    /\ memory_cache = [k \in Keys |-> Absent]
    /\ calls = [p \in Procs |-> Idle]
    /\ nFaults = 0
    /\ nAdded = [c \in ConvIds |-> 0]
    /\ userAdded = [c \in ConvIds |-> FALSE]
    /\ lastWrite = [k \in Keys |-> "none"]
    /\ vc_redis = [k \in VcKeys |-> Absent]
    /\ vc_memory = [k \in VcKeys |-> Absent]
    /\ vc_result = NoResult
    /\ wrong = [k \in VcKeys |-> 0]
    /\ nCodeFaults = 0
    /\ half_day = 0
    /\ reset_redis = [e \in Emails |-> [d \in Days |-> 0]]
    /\ reset_memory = [e \in Emails |-> [d \in Days |-> 0]]
    /\ issued = [e \in Emails |-> [t \in HalfDays |-> 0]]
    /\ hashed_password = [e \in RegisteredEmails |-> "old"]

\* POST /api/v1/conversations: ConversationService.create_conversation
CreateConversation(u, cid) ==
    /\ Delivered
    /\ conversations[cid] = NoConversation
    /\ conversations' = [conversations EXCEPT ![cid] =
            [exists |-> TRUE, user_id |-> u, title |-> DefaultTitle, summary |-> None,
             message_count |-> 0, total_tokens |-> 0, is_deleted |-> FALSE]]
    /\ UNCHANGED <<now, messages, use_redis, redis_store, memory_cache,
                   calls, nFaults, nAdded, userAdded, lastWrite>>
    /\ UNCHANGED authVars

\* ConversationService.update_conversation_stats
UpdateConversationStats(convs, cid, message_count, total_tokens) ==
    IF GetConversation(convs, cid) # NoConversation
    THEN [convs EXCEPT ![cid].message_count = message_count,
                       ![cid].total_tokens = total_tokens]
    ELSE convs

\* get_db: the request's database session is closed without a commit, so what
\* the handler flushed is rolled back and the committed rows stay.
GetDbClose(committed, flushed) == committed

\* POST /api/v1/conversations/{conversation_id}/messages: 404 when the
\* conversation is missing or soft-deleted, 403 for another user's; the message
\* row and the counters are flushed, the response is built, and the request's
\* database session is closed.
CreateConversationMessage(u, cid, m) ==
    /\ Delivered
    /\ GetConversation(conversations, cid) # NoConversation
    /\ conversations[cid].user_id = u
    /\ LET conversation == GetConversation(conversations, cid)
           flushedMessages == SaveMessage(messages, cid, m, now)
           flushedConversations ==
               UpdateConversationStats(conversations, cid,
                                       conversation.message_count + 1,
                                       conversation.total_tokens + m.tokens)
       IN
       /\ messages' = GetDbClose(messages, flushedMessages)
       /\ conversations' = GetDbClose(conversations, flushedConversations)
    /\ UNCHANGED <<now, use_redis, redis_store, memory_cache, calls, nFaults, nAdded,
                   userAdded, lastWrite>>
    /\ UNCHANGED authVars

\* The failures that the calls of one request may show.
RedisFailures(faulty) == IF faulty THEN Failures ELSE {FALSE}
DbOutcomes(faulty) == IF faulty THEN BOOLEAN ELSE {TRUE}
SummarizerOutcomes(faulty) == IF faulty THEN LlmOutcomes ELSE {o \in LlmOutcomes : o.ok}

\* The requests of the system when the users in U call the session manager,
\* with or without failures of Redis, the database and the summarizer.
Requests(U, faulty) ==
    \/ \E u \in Creators, cid \in ConvIds : CreateConversation(u, cid)
    \/ \E p \in Procs, u \in U, cid \in ConvArgs,
          gf \in RedisFailures(faulty), sf \in RedisFailures(faulty) :
          GetSession(p, u, cid, gf, sf)
    \/ \E p \in Procs, u \in U, cid \in ConvArgs, m \in MsgInputs,
          gf \in RedisFailures(faulty), hf \in RedisFailures(faulty),
          dbOk \in DbOutcomes(faulty), sf \in RedisFailures(faulty) :
          AddMessage(p, u, cid, m, gf, hf, dbOk, sf)
    \/ \E p \in Procs, llm \in SummarizerOutcomes(faulty), dbOk \in DbOutcomes(faulty),
          sf \in RedisFailures(faulty) :
          HandleRoundLimitResume(p, llm, dbOk, sf)
    \/ \E p \in Procs : Respond(p)
    \/ \E cid \in ConvIds, f \in RedisFailures(faulty) : ClearSession(cid, f)
    \/ \E u \in UserIds, cid \in ConvIds, f \in RedisFailures(faulty) :
          DeleteConversation(u, cid, f)
    \/ \E u \in UserIds, cid \in ConvIds, m \in MsgInputs : CreateConversationMessage(u, cid, m)

\* The steps of the system when the users in U call the session manager and
\* an entry may expire at any moment.
NextFor(U) ==
    \/ Requests(U, TRUE)
    \/ \E k \in Keys : RedisExpire(k)
    \/ \E k \in Keys : MemoryExpiryElapses(k)

\* Every conversation is used through the session manager by its creator.
Next == NextFor(Creators)

\* Any user calls the session manager with any conversation id.
NextAnyUser == NextFor(UserIds)

\* The creator's requests, without failures, while time passes in periods of
\* the session TTL.
NextTtl == Requests(Creators, FALSE) \/ TimePasses

\* The creator's requests, get_conversation_context among them, without
\* failures, while the wall clock ticks.
NextClock ==
    \/ Requests(Creators, FALSE)
    \/ \E p \in Procs, u \in Creators, cid \in ConvArgs : GetContext(p, u, cid, FALSE, FALSE)
    \/ Tick

Spec == Init /\ [][Next]_vars

SpecAnyUser == Init /\ [][NextAnyUser]_vars

SpecTtl == Init /\ [][NextTtl]_vars

SpecClock == Init /\ [][NextClock]_vars

\* The password-reset requests for a registered and an unregistered email,
\* with failures of the Redis calls, the database commit and the mail queue,
\* while the wall clock advances by half days.  A reset request carries a
\* code that was generated.
NextReset ==
    \/ \E e \in Emails, c \in GeneratedCodes, cf \in CodeFailures, sf \in SetFailures,
          ok \in BOOLEAN, rf \in RecordFailures, df \in CodeFailures :
          SendPasswordResetCode(e, c, cf, sf, ok, rf, df)
    \/ \E e \in Emails, c \in GeneratedCodes, pw \in NewPasswords,
          gf \in CodeFailures, lf \in CodeFailures, nf \in CodeFailures,
          ok \in BOOLEAN, df \in CodeFailures, rf \in RecordFailures :
          ResetPassword(e, c, pw, gf, lf, nf, ok, df, rf)
    \/ DeliverResult
    \/ HalfDayPasses

SpecReset == Init /\ [][NextReset]_vars

\* The creator's chat turns through the session manager, with failures:
\* every add_message of a user message is followed by the preparation of the
\* messages for the generation API.
NextChat ==
    \/ Requests(Creators, TRUE)
    \/ \E p \in Procs, h \in Histories, gf \in Failures, sf \in Failures :
          ChatPrepare(p, h, gf, sf)

SpecChat == Init /\ [][NextChat]_vars

\* The verification-code calls for one email under every code type, with
\* failures of the Redis calls, while stored codes may expire.
NextCodes ==
    \/ \E e \in CodeEmails, t \in CodeTypes, c \in GeneratedCodes, f \in SetFailures :
          StoreVerificationCode(e, t, c, f)
    \/ \E e \in CodeEmails, t \in CodeTypes, c \in Codes,
          gf \in CodeFailures, df \in CodeFailures, nf \in CodeFailures :
          IsVerificationCodeValid(e, t, c, gf, df, nf)
    \/ \E e \in CodeEmails, t \in CodeTypes, c \in Codes,
          gf \in CodeFailures, df \in CodeFailures, nf \in CodeFailures :
          VerifyCodeWithDetails(e, t, c, gf, df, nf)
    \/ DeliverResult
    \/ \E e \in CodeEmails, t \in CodeTypes, f \in CodeFailures :
          RemoveVerificationCode(e, t, f)
    \/ \E k \in VcKeys : CodeExpires(k)
    \/ \E k \in VcKeys : MemoryCodeExpiryElapses(k)

SpecCodes == Init /\ [][NextCodes]_vars

(***************************************************************************)
(* Properties                                                              *)
(***************************************************************************)
RECURSIVE SumTokens(_)
SumTokens(rows) ==
    IF rows = <<>> THEN 0 ELSE Head(rows).tokens + SumTokens(Tail(rows))

\* An add_message call that got its session (no InvalidArgument / NotFound).
Added(p) == calls[p].pc \in {"summarizing", "returned"} /\ calls[p].op = "add"
            /\ calls[p].error = "none"

\* An add_message call that has returned a session to its caller.
AddReturned(p) == calls[p].pc = "returned" /\ calls[p].op = "add" /\ calls[p].error = "none"

\* What the backing that took the latest set of a key holds for it.
CacheEntry(key) ==
    IF lastWrite[key] = "redis" /\ redis_store[key] # Absent
    THEN JsonLoads(redis_store[key].value)
    ELSE IF lastWrite[key] = "memory" /\ memory_cache[key] # Absent
    THEN memory_cache[key].value
    ELSE Absent

\* Some backing holds an entry for the key that a get can return.
CacheHolds(key) ==
    \/ redis_store[key] # Absent
    \/ memory_cache[key] # Absent /\ ~Elapsed(memory_cache[key])

\* C1: add_message updates the durable conversation title only during the
\* first user-role add_message of the conversation; no later add_message
\* updates the title again.
C1_TitleSetOnce ==
    \A p \in Procs : Added(p) => (calls[p].title_updated => calls[p].first_user)

\* C2: when the summarizer call fails during a rollover, add_message returns
\* with the window and total_tokens it had before the rollover attempt, so
\* get_rounds() stays above max_rounds.
C2_SummarizerFailureKeepsWindow ==
    \A p \in Procs :
        (AddReturned(p) /\ calls[p].rollover /\ ~calls[p].llm_ok) =>
            /\ calls[p].session.messages = calls[p].before.messages
            /\ calls[p].session.total_tokens = calls[p].before.total_tokens
            /\ GetRounds(calls[p].session) > calls[p].session.max_rounds

\* C3: the durable conversation record's message_count is the number of
\* persisted messages of the conversation and its total_tokens is the sum of
\* their token counts.
C3_CountersMatchLog ==
    \A c \in ConvIds :
        conversations[c] # NoConversation =>
            /\ conversations[c].message_count = Len(messages[c])
            /\ conversations[c].total_tokens = SumTokens(messages[c])

\* C4: an add_message call whose durable append failed does not return a
\* session: the failure is raised to the caller.
C4_AppendFailureRaised ==
    \A p \in Procs :
        (calls[p].pc = "returned" /\ calls[p].op = "add" /\ ~calls[p].append_ok) =>
            calls[p].error # "none"

\* q's add_message ran, from its cache read to its cache write-back, while
\* p's add_message on the same conversation was suspended in its rollover; both
\* have returned.
Overlapped(p, q) ==
    /\ p # q
    /\ AddReturned(p) /\ AddReturned(q)
    /\ calls[p].conv = calls[q].conv
    /\ calls[p].rollover
    /\ calls[q].overlapped /\ ~calls[q].rollover

\* C5: add_message calls on one conversation are not mutually excluded.  When
\* one call ran while another was suspended in its rollover, the suspended
\* call's write-back replaces the cache entry with its own session: both calls
\* have returned, the first returned a window ending with its message, and the
\* cached window does not hold that message.
C5_LostUpdate ==
    \A p, q \in Procs :
        Overlapped(p, q) =>
            /\ calls[q].session.messages # <<>>
            /\ LET last == calls[q].session.messages[Len(calls[q].session.messages)] IN
                   /\ last.role = calls[q].msg.role
                   /\ last.content = calls[q].msg.content
                   /\ last.tokens = calls[q].msg.tokens
            /\ CacheEntry(SessionKey(calls[p].conv)) = calls[p].written
            /\ CacheEntry(SessionKey(calls[p].conv)).messages = <<>>

\* The lost update of C5: both calls have returned without an error, and the
\* cached session is the rolled-over one, without the message of the call that
\* ran in between and without trace of it in the history that was summarized.
C5_LostUpdateReached ==
    \E p, q \in Procs :
        /\ Overlapped(p, q)
        /\ calls[q].append_ok /\ calls[p].append_ok
        /\ CacheEntry(SessionKey(calls[p].conv)) # Absent
        /\ CacheEntry(SessionKey(calls[p].conv)).messages = <<>>
        /\ Len(calls[q].session.messages) = Len(calls[p].before.messages)
        /\ calls[q].session.messages # calls[p].before.messages

\* C6: when the conversation-deletion operation for a conversation completes,
\* no backing of the session cache holds an entry for its key.
C6_DeleteClearsCache ==
    [][\A cid \in ConvIds :
          (\E u \in UserIds, f \in BOOLEAN : DeleteConversation(u, cid, f))
              => ~CacheHolds(SessionKey(cid))']_vars

\* C7: once a set for a conversation's key fell back to the in-memory map
\* because the Redis call threw, a get_session for that conversation within the
\* TTL returns the session of the fallback store (same messages, total_tokens
\* and summary).
C7_FallbackSessionReturned ==
    [][\A cid \in ConvIds, p \in Procs :
          ( /\ use_redis
            /\ lastWrite[SessionKey(cid)] = "memory"
            /\ memory_cache[SessionKey(cid)] # Absent
            /\ ~Elapsed(memory_cache[SessionKey(cid)])
            /\ \E u \in UserIds, gf \in BOOLEAN, sf \in BOOLEAN : GetSession(p, u, cid, gf, sf) )
          => /\ calls'[p].error = "none"
             /\ calls'[p].session.messages =
                    FromDict(memory_cache[SessionKey(cid)].value).messages
             /\ calls'[p].session.total_tokens = memory_cache[SessionKey(cid)].value.total_tokens
             /\ calls'[p].session.summary = memory_cache[SessionKey(cid)].value.summary]_vars

\* C8: the session that get_session returns, or add_message extends, for a
\* call made with user id v is a session of user v.
C8_UserIsolation ==
    \A p \in Procs :
        (calls[p].pc \in {"summarizing", "returned"} /\ calls[p].error = "none") =>
            calls[p].session.user_id = calls[p].user

\* A rollover that succeeded: the summarizer answered and the summary was saved.
RolledOver(p) ==
    AddReturned(p) /\ calls[p].rollover /\ calls[p].llm_ok /\ calls[p].summary_saved

\* The cleared session of C9 for the call in slot p.
ClearedSession(p) ==
    /\ calls[p].session.messages = <<>>
    /\ calls[p].session.total_tokens = 0
    /\ calls[p].session.summary # None
    /\ calls[p].written = ToDict(calls[p].session)
    /\ calls[p].written.messages = <<>>
    /\ calls[p].written.total_tokens = 0
    /\ calls[p].written.summary # None

\* C9: once add_message made get_rounds() > max_rounds and the rollover
\* succeeded, the session it returns and the session it writes to the cache
\* have an empty message list, total_tokens 0 and a summary that is not None;
\* the cache holds that session when the call returns.
C9_RolloverClearsWindow ==
    /\ [](\A p \in Procs : RolledOver(p) => ClearedSession(p))
    /\ [][\A p \in Procs :
             (calls[p].pc = "summarizing" /\ RolledOver(p)') =>
                 /\ CacheEntry(SessionKey(calls[p].conv))' = calls'[p].written
                 /\ calls'[p].written.messages = <<>>
                 /\ calls'[p].written.total_tokens = 0]_vars

\* A rollover succeeded on a window that held more than max_rounds user
\* messages, and the cache holds the cleared session.
C9_RolloverReached ==
    \E p \in Procs :
        /\ RolledOver(p)
        /\ GetRounds(calls[p].before) > calls[p].before.max_rounds
        /\ calls[p].before.total_tokens > 0
        /\ CacheEntry(SessionKey(calls[p].conv)) = calls[p].written
        /\ conversations[calls[p].conv].summary = calls[p].session.summary

\* The rounds of C10 for the call in slot p.
RolloverIffExceeded(p) ==
    /\ calls[p].rollover <=> (calls[p].rounds_after > calls[p].before.max_rounds)
    /\ calls[p].rounds_after =
           calls[p].rounds_before + (IF calls[p].msg.role = "user" THEN 1 ELSE 0)
    /\ calls[p].pc = "summarizing" => calls[p].rollover

\* C10: a rollover is attempted during an add_message call if and only if,
\* after the new message is appended, the window holds strictly more than
\* max_rounds user-role messages; assistant messages do not change the round
\* count; and no step other than an add_message's rollover changes a
\* conversation's summary or suspends a call in the summarizer.
C10_RolloverIffExceeded ==
    /\ [](\A p \in Procs : Added(p) => RolloverIffExceeded(p))
    /\ [][\A p \in Procs :
             /\ (calls'[p].pc = "summarizing" /\ calls[p].pc # "summarizing") =>
                    (calls'[p].op = "add" /\ calls'[p].rollover)
             /\ \A c \in ConvIds :
                    (conversations[c] # NoConversation
                     /\ conversations'[c].summary # conversations[c].summary) =>
                        \E q \in Procs : /\ calls[q].pc = "summarizing"
                                         /\ calls'[q].pc = "returned"
                                         /\ calls[q].conv = c]_vars

\* Both sides of the round limit have been seen: the call found a cached
\* window of exactly max_rounds user messages (the call that wrote it did not
\* roll over, or the window would be empty), and its own user message, the
\* (max_rounds + 1)-th, made it roll over.
C10_BothSidesReached ==
    \E p \in Procs :
        /\ AddReturned(p)
        /\ calls[p].rollover
        /\ calls[p].msg.role = "user"
        /\ calls[p].rounds_before = calls[p].before.max_rounds
        /\ calls[p].rounds_after = calls[p].before.max_rounds + 1

\* Nothing has failed and no rollover has been attempted on conversation c:
\* the committed log holds what every add_message call so far was given.
NoRolloverSoFar(c) ==
    /\ nFaults = 0
    /\ GetConversation(conversations, c) # NoConversation
    /\ conversations[c].summary = None
    /\ \A q \in Procs : Added(q) => ~calls[q].rollover

CachedDicts ==
    {JsonLoads(redis_store[k].value) : k \in {x \in Keys : redis_store[x] # Absent}}
    \cup {memory_cache[k].value : k \in {x \in Keys : memory_cache[x] # Absent}}

GetsSession(p, c) ==
    /\ calls[p].pc = "idle"
    /\ calls'[p].pc = "returned"
    /\ calls'[p].op = "get"
    /\ calls'[p].conv = c

\* The session of conversation c was cached and then left alone, neither read
\* nor written, until its TTL ran out.
LeftBeyondTtl(c) == lastWrite[SessionKey(c)] = "expired"

\* C12: a cached session neither read nor written for longer than the TTL is
\* absent at the next get_session, with Redis and with the in-memory
\* fallback alike: the call misses and returns the cold-loaded session (empty
\* window, total_tokens 0, the durable summary), or NotFound when the
\* conversation is gone, and no cache entry is left.
C12_ExpiredSessionAbsent ==
    [][\A p \in Procs, c \in ConvIds :
          (GetsSession(p, c) /\ LeftBeyondTtl(c)) =>
              /\ ~calls'[p].hit
              /\ ~CacheHolds(SessionKey(c))'
              /\ memory_cache'[SessionKey(c)] = Absent \/ use_redis
              /\ IF ConversationExists(conversations, c)
                 THEN /\ calls'[p].error = "none"
                      /\ calls'[p].session.messages = <<>>
                      /\ calls'[p].session.total_tokens = 0
                      /\ calls'[p].session.summary = GetConversationSummary(conversations, c)
                 ELSE calls'[p].error = "NotFound"]_vars

\* get_session returned a cold-loaded session carrying a durable summary for
\* a conversation whose cached session had been left beyond its TTL.
C12_ExpiredSessionReached ==
    \E p \in Procs :
        /\ calls[p].pc = "returned" /\ calls[p].op = "get" /\ calls[p].error = "none"
        /\ calls[p].conv \in ConvIds
        /\ LeftBeyondTtl(calls[p].conv)
        /\ ~calls[p].hit
        /\ calls[p].session.messages = <<>>
        /\ calls[p].session.summary # None
        /\ calls[p].session.summary = conversations[calls[p].conv].summary

\* The entry of a key in the backing in use, when no Redis call fails.
StoredEntry(key) == IF use_redis THEN redis_store[key] ELSE memory_cache[key]

\* An add_message call on conversation c returns in this step.
AddReturns(p, c) ==
    /\ calls[p].pc # "returned"
    /\ calls'[p].pc = "returned"
    /\ calls'[p].op = "add"
    /\ calls'[p].error = "none"
    /\ calls'[p].conv = c

\* C13: every successful set starts the key's TTL anew, and every
\* get_session hit writes the session back.  So a hit leaves the entry with
\* its full TTL and with the messages, total_tokens and summary it had (the
\* returned session has them too); an add_message that returns leaves the
\* entry with its full TTL; and an entry expires only when a whole TTL has
\* passed since it was last read or written.
C13_TouchedSessionStays ==
    [][\A p \in Procs, c \in ConvIds :
          LET key == SessionKey(c) IN
          /\ (GetsSession(p, c) /\ calls'[p].hit) =>
                /\ StoredEntry(key) # Absent
                /\ CacheEntry(key)' # Absent
                /\ StoredEntry(key)'.age = 0
                /\ CacheEntry(key)'.messages = CacheEntry(key).messages
                /\ CacheEntry(key)'.total_tokens = CacheEntry(key).total_tokens
                /\ CacheEntry(key)'.summary = CacheEntry(key).summary
                /\ ToDict(calls'[p].session).messages = CacheEntry(key).messages
                /\ calls'[p].session.total_tokens = CacheEntry(key).total_tokens
                /\ calls'[p].session.summary = CacheEntry(key).summary
          /\ AddReturns(p, c) =>
                /\ CacheEntry(key)' = calls'[p].written
                /\ StoredEntry(key)'.age = 0
          /\ (lastWrite[key] # "expired" /\ lastWrite'[key] = "expired") =>
                /\ StoredEntry(key) # Absent
                /\ StoredEntry(key).age + 1 >= TtlPeriods]_vars

\* get_session hit an entry that was one period old and holds messages, and
\* the entry's TTL has started anew.
C13_TouchedSessionReached ==
    \E p \in Procs :
        /\ calls[p].pc = "returned" /\ calls[p].op = "get" /\ calls[p].error = "none"
        /\ calls[p].hit
        /\ calls[p].age_read = TtlPeriods - 1
        /\ calls[p].session.messages # <<>>
        /\ StoredEntry(SessionKey(calls[p].conv)) # Absent
        /\ StoredEntry(SessionKey(calls[p].conv)).age = 0

NoEntryCreated ==
    /\ redis_store' = redis_store
    /\ \A k \in Keys : memory_cache'[k] # Absent => memory_cache'[k] = memory_cache[k]

\* The durable store is as it was.
DurableUnchanged == conversations' = conversations /\ messages' = messages

\* C15: get_session on a cache miss fails with NotFound when the
\* conversation is absent or soft-deleted; it returns no session and creates
\* neither a cache entry nor a durable record.
C15_MissingConversationNotFound ==
    [][\A p \in Procs, c \in ConvIds :
          (/\ GetsSession(p, c)
           /\ ~calls'[p].hit
           /\ conversations[c] = NoConversation \/ conversations[c].is_deleted) =>
              /\ calls'[p].error = "NotFound"
              /\ calls'[p].session = Absent
              /\ NoEntryCreated
              /\ DurableUnchanged]_vars

\* get_session failed with NotFound on a soft-deleted conversation whose
\* messages are still in the durable store.
C15_NotFoundReached ==
    \E p \in Procs :
        /\ calls[p].pc = "returned" /\ calls[p].op = "get"
        /\ calls[p].error = "NotFound"
        /\ calls[p].conv \in ConvIds
        /\ conversations[calls[p].conv] # NoConversation
        /\ conversations[calls[p].conv].is_deleted
        /\ messages[calls[p].conv] # <<>>
        /\ ~CacheHolds(SessionKey(calls[p].conv))

\* C16: get_session on a cache miss for an existing conversation returns a
\* session with an empty window and the durable summary, and leaves the cache
\* as it was; a key that no backing holds gets an entry only by an
\* add_message call that completes.
C16_ColdLoadNotCached ==
    [][\A c \in ConvIds :
          /\ \A p \in Procs :
                (/\ GetsSession(p, c)
                 /\ ~calls'[p].hit
                 /\ conversations[c] # NoConversation
                 /\ ~conversations[c].is_deleted) =>
                    /\ calls'[p].error = "none"
                    /\ calls'[p].session.messages = <<>>
                    /\ calls'[p].session.total_tokens = 0
                    /\ calls'[p].session.summary = conversations[c].summary
                    /\ calls'[p].session.conversation_id = c
                    /\ calls'[p].session.user_id = calls'[p].user
                    /\ NoEntryCreated
                    /\ DurableUnchanged
          /\ (~CacheHolds(SessionKey(c)) /\ CacheHolds(SessionKey(c))') =>
                \E p \in Procs : AddReturns(p, c)]_vars

\* get_session cold-loaded a session with the durable summary and no cache
\* entry exists for it.
C16_ColdLoadReached ==
    \E p \in Procs :
        /\ calls[p].pc = "returned" /\ calls[p].op = "get" /\ calls[p].error = "none"
        /\ ~calls[p].hit
        /\ calls[p].session.messages = <<>>
        /\ calls[p].session.summary \in SummaryTexts
        /\ calls[p].session.summary = conversations[calls[p].conv].summary
        /\ messages[calls[p].conv] # <<>>
        /\ ~CacheHolds(SessionKey(calls[p].conv))

\* A request slot takes a call with an empty conversation id in this step.
CallsWithEmptyId(p) ==
    /\ calls[p].pc = "idle"
    /\ calls'[p].pc = "returned"
    /\ calls'[p].conv = ""

\* C17: get_session, add_message and get_conversation_context with an
\* empty conversation id fail with InvalidArgument before any cache or
\* durable access: no session is returned and nothing but the caller's own
\* slot changes.
C17_EmptyIdInvalidArgument ==
    [][\A p \in Procs :
          CallsWithEmptyId(p) =>
              /\ calls'[p].op \in {"get", "add", "context"}
              /\ calls'[p].error = "InvalidArgument"
              /\ calls'[p].session = Absent
              /\ \A q \in Procs \ {p} : calls'[q] = calls[q]
              /\ UNCHANGED <<now, conversations, messages, use_redis, redis_store,
                             memory_cache, nFaults, nAdded, userAdded, lastWrite>>]_vars

\* get_conversation_context has failed with InvalidArgument on an empty
\* conversation id while a session is cached and a conversation is stored.
C17_EmptyIdReached ==
    \E p \in Procs :
        /\ calls[p].pc = "returned" /\ calls[p].op = "context"
        /\ calls[p].conv = "" /\ calls[p].error = "InvalidArgument"
        /\ calls[p].session = Absent
        /\ \E c \in ConvIds : CacheHolds(SessionKey(c)) /\ messages[c] # <<>>

\* C18: messages come back from the durable store in append order: the
\* rows in the order in which they were appended are a listing by creation
\* timestamp, so that each assistant message stands before every message
\* appended after it.
C18_ListingIsAppendOrder ==
    \A c \in ConvIds : messages[c] \in GetConversationMessages(messages, c)

\* A get_conversation_context call that has returned a context.
ContextReturned(p) ==
    calls[p].pc = "returned" /\ calls[p].op = "context" /\ calls[p].error = "none"

\* Whether a session carries a summary: neither None nor the empty text.
HasSummary(session) == session.summary # None /\ session.summary # ""

\* The context holds, in order, the system preamble, the summary entry when
\* the session has a summary, and the role and content of every window message.
ContextOf(session, context) ==
    LET lead == IF HasSummary(session) THEN 2 ELSE 1 IN
    /\ Len(context) = lead + Len(session.messages)
    /\ context[1] = [role |-> "system", content |-> SystemPreamble]
    /\ HasSummary(session) =>
          context[2] = [role |-> "system", content |-> SummaryLead \o session.summary]
    /\ \A i \in 1..Len(session.messages) :
          context[lead + i] = [role    |-> session.messages[i].role,
                               content |-> session.messages[i].content]

\* A request slot takes a get_conversation_context call on c in this step.
GetsContext(p, c) ==
    /\ calls[p].pc = "idle"
    /\ calls'[p].pc = "returned"
    /\ calls'[p].op = "context"
    /\ calls'[p].conv = c

\* C19: get_conversation_context returns the system preamble, then one
\* system entry carrying the summary exactly when the summary is non-empty,
\* then every window message in order with its role and content.  It is
\* computed from the session as cached at the call: directly after a rollover
\* it is the preamble and the new summary, with none of the rolled-over
\* messages.
C19_ContextFromSession ==
    /\ [](\A p \in Procs : ContextReturned(p) => ContextOf(calls[p].session, calls[p].context))
    /\ [][\A p \in Procs, c \in ConvIds :
             (GetsContext(p, c) /\ CacheEntry(SessionKey(c)) # Absent) =>
                 LET cached == CacheEntry(SessionKey(c)) IN
                 /\ calls'[p].error = "none"
                 /\ ToDict(calls'[p].session).messages = cached.messages
                 /\ calls'[p].session.summary = cached.summary
                 /\ (cached.messages = <<>> /\ cached.summary \in SummaryTexts) =>
                       calls'[p].context =
                           <<[role |-> "system", content |-> SystemPreamble],
                             [role |-> "system", content |-> SummaryLead \o cached.summary]>>]_vars

\* A context was returned directly after a rollover: the preamble and the
\* summary, while the durable log holds the rolled-over messages.
C19_ContextAfterRolloverReached ==
    \E p \in Procs :
        /\ ContextReturned(p)
        /\ calls[p].hit
        /\ calls[p].session.summary \in SummaryTexts
        /\ Len(calls[p].context) = 2
        /\ calls[p].context[2].content = SummaryLead \o calls[p].session.summary
        /\ Len(messages[calls[p].conv]) > MaxRounds

\* A call that holds a session: returned by get_user_session, or built by
\* add_message.
HoldsSession(p) ==
    calls[p].pc \in {"summarizing", "returned"} /\ calls[p].error = "none"

\* The session read back after its serialized value was set in, and got
\* from, the in-memory fallback.
ThroughMemory(session) ==
    LET key    == SessionKey(session.conversation_id)
        stored == RedisSetex(Cache, key, JsonDumps(ToDict(session)), TRUE)
        read   == RedisGet(stored, key, TRUE)
    IN  IF read.value = Absent THEN Absent ELSE FromDict(JsonLoads(read.value))

\* C20: to_dict followed by from_dict gives back the session: the same
\* messages (role, content, timestamp, tokens, importance), total_tokens,
\* summary, user id, conversation id, max_tokens and max_rounds; and so does
\* storing the serialized value with setex in the in-memory fallback and
\* reading it back with get.
C20_SessionRoundTrip ==
    \A p \in Procs :
        HoldsSession(p) =>
            /\ FromDict(ToDict(calls[p].session)) = calls[p].session
            /\ FromDict(JsonLoads(JsonDumps(ToDict(calls[p].session)))) = calls[p].session
            /\ ThroughMemory(calls[p].session) = calls[p].session

\* A session with a user and an assistant message, stamped at different
\* times and weighted differently, went through the round trip.
C20_RoundTripReached ==
    \E p \in Procs :
        /\ HoldsSession(p)
        /\ Len(calls[p].session.messages) >= 2
        /\ \E i, j \in 1..Len(calls[p].session.messages) :
              /\ calls[p].session.messages[i].role # calls[p].session.messages[j].role
              /\ calls[p].session.messages[i].timestamp > 0
              /\ calls[p].session.messages[i].timestamp # calls[p].session.messages[j].timestamp
              /\ calls[p].session.messages[i].importance # calls[p].session.messages[j].importance
        /\ calls[p].session.last_activity > 0
        /\ calls[p].session.total_tokens > 0
        /\ ThroughMemory(calls[p].session) = calls[p].session

\* How many of the rows carry the role, content and tokens of input m, with
\* the role as the durable store keeps it.
CountOf(rows, m) ==
    Cardinality({i \in 1..Len(rows) :
                    /\ DbRole(rows[i].role) = DbRole(m.role)
                    /\ rows[i].content = m.content
                    /\ rows[i].tokens = m.tokens})

\* C22: the durable append of a message is committed before the cache
\* write-back of the session that contains it: every message in a cached
\* session window is also in the durable message log of its conversation
\* (counted with repetitions).
C22_CachedMessagesAreDurable ==
    \A d \in CachedDicts : \A m \in MsgInputs :
        CountOf(d.messages, m) <= CountOf(messages[d.conversation_id], m)

\* C23: a cached session's summary is the summary of the durable
\* conversation record (of a conversation that has not been deleted); and a rollover whose durable summary write failed
\* leaves the session as it was before the rollover (window, total_tokens and
\* summary).
C23_SummaryMirrorsDurable ==
    /\ \A d \in CachedDicts :
          GetConversation(conversations, d.conversation_id) # NoConversation =>
              d.summary = conversations[d.conversation_id].summary
    /\ \A p \in Procs :
          (AddReturned(p) /\ calls[p].rollover /\ ~calls[p].summary_saved) =>
              /\ calls[p].session.messages = calls[p].before.messages
              /\ calls[p].session.total_tokens = calls[p].before.total_tokens
              /\ calls[p].session.summary = calls[p].before.summary

SetAndLive(key) == lastWrite[key] \in {"redis", "memory"} /\ CacheEntry(key) # Absent

\* C26: after a set of value v for key k has succeeded, a get of k within
\* the TTL and with no set or delete of k in between returns v: get_session
\* hits and returns the session that was set, not an older one and not none.
C26_GetReturnsLatestSet ==
    [][\A p \in Procs, c \in ConvIds :
          (GetsSession(p, c) /\ SetAndLive(SessionKey(c))) =>
              /\ calls'[p].hit
              /\ ToDict(calls'[p].session).messages = CacheEntry(SessionKey(c)).messages
              /\ calls'[p].session.total_tokens = CacheEntry(SessionKey(c)).total_tokens
              /\ calls'[p].session.summary = CacheEntry(SessionKey(c)).summary]_vars

\* A request slot takes an add_message or get_session call on c in this step.
CallsOn(p, c) ==
    /\ calls[p].pc = "idle"
    /\ calls'[p].pc = "returned" \/ calls'[p].pc = "summarizing"
    /\ calls'[p].op \in {"get", "add"}
    /\ calls'[p].conv = c

\* C27: once a conversation has been soft-deleted, every add_message and
\* get_session call for its id fails with NotFound, and its durable message
\* log does not grow.
C27_DeletedConversationClosed ==
    [][\A c \in ConvIds :
          (conversations[c] # NoConversation /\ conversations[c].is_deleted) =>
              /\ messages'[c] = messages[c]
              /\ \A p \in Procs : CallsOn(p, c) => calls'[p].error = "NotFound"]_vars

\* C24: every read of the in-memory fallback map comes after a purge of
\* the expired entries: no verification-code lookup, also one that falls back
\* to the map after a backend error, reads an entry whose expiry has passed.
C24_NoExpiredEntryRead ==
    vc_result # NoResult => ~vc_result.read_expired

\* C29: between one set_verification_code for an (email, code type) pair
\* and the next, at most 5 wrong codes are compared with the stored code, and
\* no verification succeeds once 5 wrong attempts have been made, whichever
\* cache-backend calls fail.
C29_AttemptsBounded ==
    /\ \A k \in VcKeys : wrong[k] <= MaxVerificationAttempts
    /\ (vc_result # NoResult /\ vc_result.valid) =>
          vc_result.wrong_before < MaxVerificationAttempts

\* A verification call for the email under code type t returns in this step.
Verifies(e, t) ==
    /\ vc_result = NoResult
    /\ vc_result' # NoResult
    /\ vc_result'.email = e
    /\ vc_result'.code_type = t

\* C30: verifying a code for an (email, code type T) pair leaves the code
\* stored for the email under any other code type as it is; when the attempt
\* limit is reached for T, the code stored under T is the one removed.
C30_OtherTypeUntouched ==
    [][\A e \in CodeEmails, t \in CodeTypes :
          Verifies(e, t) =>
              /\ \A u \in CodeTypes \ {t} :
                    /\ vc_redis'[VcKey(e, u)] = vc_redis[VcKey(e, u)]
                    /\ (vc_memory[VcKey(e, u)] # Absent /\ ~vc_memory[VcKey(e, u)].expired) =>
                          vc_memory'[VcKey(e, u)] = vc_memory[VcKey(e, u)]
              /\ (vc_result'.error_type = "max_attempts_exceeded" /\ nCodeFaults' = nCodeFaults) =>
                    /\ vc_redis'[VcKey(e, t)] = Absent
                    /\ vc_memory'[VcKey(e, t)] = Absent]_vars

\* How many entries of a message list are the user message with this content.
UserEntries(list, content) ==
    Cardinality({i \in 1..Len(list) : list[i].role = "user" /\ list[i].content = content})

\* A chat turn has prepared its messages through the session manager.
ChatPrepared(p) ==
    calls[p].pc = "returned" /\ calls[p].op = "chat" /\ calls[p].via_manager

\* C28: for a chat turn handled through the session manager, the message
\* list sent to the generation API contains the current user message exactly
\* once: when no earlier message of the window has the same content, the list
\* has one user entry with the content of the current message.
C28_UserMessageOnce ==
    \A p \in Procs :
        (ChatPrepared(p) /\ UserEntries(calls[p].window, calls[p].msg.content) = 1) =>
            UserEntries(calls[p].messages, calls[p].msg.content) = 1

\* C21: for one email address, at most 3 password-reset codes are issued
\* within any 24-hour period: over every two consecutive half days, the codes
\* issued for the email are at most 3.
C21_ResetCodesPerDay ==
    \A e \in Emails : \A t \in 0..(MaxHalfDays - 1) :
        issued[e][t] + issued[e][t + 1] <= MaxPasswordResets


====
